---- MODULE Spec2Model ----
(***************************************************************************)
(* The job lifecycle and execution engine of ab-transcript:                *)
(*   - JobManager      (src/src/server/job_manager.py): the file store,    *)
(*   - AudioProcessor  (src/src/server/processor.py): the pipeline,        *)
(*   - ProcessingQueue (src/src/server/processing_queue.py): the intake    *)
(*     queue, the dispatch thread, the ThreadPoolExecutor and its Futures. *)
(* Every thread (dispatch thread, pool worker, caller of the API) is a     *)
(* record in th; a thread that has called a store operation carries the    *)
(* file operations still to do in th[t].ops and does them one per step.    *)
(***************************************************************************)
EXTENDS Integers, Sequences, FiniteSets, TLC

\* ------------------------------------------------------------------ bounds
NumJobs == 2        \* job identifiers the store can hand out
MaxEnqueue == 2     \* enqueue_job calls made in one behaviour
MaxUploads == 1     \* uploads made in one behaviour
MaxLists == 2       \* list_jobs loop bodies run in one behaviour
MaxBurst == 3       \* entries waiting in job_queue when a burst is dispatched
MaxTime == 3        \* the largest timestamp of a segment
MaxWhisper == 2     \* transcript segments given to the speaker merge
MaxDiarization == 3 \* diarization segments given to the speaker merge
MaxWorkers == 2     \* ProcessingQueue(job_manager, max_workers=2)

Jobs == 1..NumJobs
FutureIds == 1..(MaxEnqueue + MaxBurst)
Dispatchers == {<<"queue_thread", 1>>}
WorkersOneMore == {<<"worker", i>> : i \in 1..(MaxWorkers + 1)}
Workers == {<<"worker", i>> : i \in 1..MaxWorkers}
Clients == {<<"client", 1>>}
Threads == Dispatchers \cup Workers \cup Clients

\* ------------------------------------------------------------------ values
\* JobStage and JobStatus values, as stored in metadata.json
NOT_STARTED == "not_started"
TRANSCRIBING == "transcribing"
TRANSCRIPTION_COMPLETE == "transcription_complete"
DIARIZING == "diarizing"
DIARIZATION_COMPLETE == "diarization_complete"
SUMMARIZING == "summarizing"
COMPLETE == "complete"
FAILED == "failed"
QUEUED == "queued"
PROCESSING == "processing"
COMPLETED == "completed"

JobStage == {NOT_STARTED, TRANSCRIBING, TRANSCRIPTION_COMPLETE, DIARIZING,
             DIARIZATION_COMPLETE, SUMMARIZING, COMPLETE, FAILED}
JobStatus == {QUEUED, PROCESSING, COMPLETED, FAILED}

\* the files of a job directory; a file that does not exist holds Absent
FILES == {"metadata", "audio", "transcription", "diarization", "summary", "error", "progress"}
Absent == "absent"
NoFiles == [f \in FILES |-> Absent]
NoMetadata == [stage |-> NOT_STARTED, status |-> QUEUED]

\* exception messages
NoExc == "none"
CancelledByUser == "Job cancelled by user"
JobDoesNotExist == "Job does not exist"
MetadataNotFound == "Job metadata not found"
AudioNotFound == "Audio file not found"
TranscribeError == "transcribe raised"
DiarizeError == "diarize raised"
SummarizeError == "summarize raised"

\* Future states of concurrent.futures
PENDING == "PENDING"
RUNNING == "RUNNING"
CANCELLED == "CANCELLED"
CANCELLED_AND_NOTIFIED == "CANCELLED_AND_NOTIFIED"
FINISHED == "FINISHED"
Free == <<"free", 0>>
NoFuture == [job |-> 0, state |-> "none", exc |-> NoExc, cb |-> FALSE]

VARIABLES
    jobdir,        \* JobManager: jobdir[j] = the directory of job j exists
    files,         \* JobManager: files[j][f] = content of file f of job j, or Absent
    meta,          \* JobManager: the stage and status fields of metadata.json
    options,       \* the options bag each job is created with
    environ,       \* os.getenv: which credentials the process has
    merge,         \* assign_speakers_to_segments: its arguments and its return value
    is_running,    \* ProcessingQueue.is_running
    job_queue,     \* ProcessingQueue.job_queue: Queue of (priority, job_id)
    running_jobs,  \* ProcessingQueue.running_jobs: dict job_id -> Future, in insertion order
    lock,          \* ProcessingQueue._lock: Free or the thread that holds it
    futures,       \* the Futures the executor has created
    work_queue,    \* ThreadPoolExecutor._work_queue: the work items not yet taken
    shutdown,      \* ThreadPoolExecutor._shutdown
    th,            \* the threads: position, locals, pending file operations
    submitted,     \* the jobs that have been handed to executor.submit
    calls          \* counters that bound the behaviour: enqueue and list calls made

vars == <<jobdir, files, meta, options, environ, merge, is_running, job_queue, running_jobs,
          lock, futures, work_queue, shutdown, th, submitted, calls>>
storeVars == <<jobdir, files, meta, options, environ>>
queueVars == <<is_running, job_queue, running_jobs, lock, futures, work_queue, shutdown>>

\* ------------------------------------------------------------------ threads
NoSnap == [stage |-> NOT_STARTED, status |-> QUEUED]
IdleThread == [pc |-> "idle", op |-> "none", job |-> 0, fut |-> 0, exc |-> NoExc,
               ops |-> <<>>, onerr |-> "idle", after |-> "idle", ret |-> "none",
               snap |-> NoSnap, prio |-> 0, busy |-> FALSE, entries |-> {},
               segments |-> "[]", summary |-> "None", saved |-> FALSE]

\* thread t is at pc, with no store call in progress
At(t, pc) == th[t].pc = pc /\ th[t].ops = <<>>

\* a thread of the pool or the dispatch thread that has nothing in hand keeps no locals
Settle(t, r) ==
    IF r.ops = <<>> /\ r.pc \in {"idle", "loop"} /\ t \notin Clients
    THEN [IdleThread EXCEPT !.pc = r.pc]
    ELSE r

\* ------------------------------------------------------------------ JobManager
\* one file operation of a store call
WriteOp(f, v) == [k |-> "write", f |-> f, v |-> v]
StageOp(s) == [k |-> "stage", f |-> "metadata", v |-> s]
StatusOp(s) == [k |-> "status", f |-> "metadata", v |-> s]

\* job_exists / get_metadata
job_exists(j) == jobdir[j]
has_metadata(j) == job_exists(j) /\ files[j]["metadata"] # Absent

\* the store calls, as the file operations they perform in order
update_stage(stage) ==
    <<StageOp(stage)>> \o
    (IF stage = FAILED THEN <<StatusOp(FAILED)>>
     ELSE IF stage = COMPLETE THEN <<StatusOp(COMPLETED)>>
     ELSE IF stage # NOT_STARTED THEN <<StatusOp(PROCESSING)>>
     ELSE <<>>)
update_progress(message) ==
    <<[k |-> "progress", f |-> "progress", v |-> message],
      [k |-> "timestamp", f |-> "metadata", v |-> "json"]>>
save_transcription_stage_first(text) == <<StageOp(TRANSCRIPTION_COMPLETE), WriteOp("transcription", text)>>
save_transcription(text) == <<WriteOp("transcription", text), StageOp(TRANSCRIPTION_COMPLETE)>>
save_diarization == <<WriteOp("diarization", "segments_with_speakers"), StageOp(DIARIZATION_COMPLETE)>>
save_summary == <<WriteOp("summary", "summary"), StageOp(COMPLETE), StatusOp(COMPLETED)>>
save_error(message) == <<WriteOp("error", message), StageOp(FAILED), StatusOp(FAILED)>>

\* _should_process_diarization / _should_process_summary
should_process_diarization(j) == has_metadata(j) /\ options[j].enable_diarization
should_process_summary(j) == has_metadata(j) /\ options[j].enable_summarization

\* _determine_current_status with the completion test ahead of the error test
determine_status_completed_first(j) ==
    IF ~job_exists(j) THEN FAILED
    ELSE IF files[j]["summary"] # Absent
            \/ (files[j]["transcription"] # Absent
                /\ ~should_process_diarization(j)
                /\ ~should_process_summary(j)) THEN COMPLETED
    ELSE IF files[j]["error"] # Absent THEN FAILED
    ELSE IF files[j]["transcription"] # Absent \/ files[j]["progress"] # Absent THEN PROCESSING
    ELSE QUEUED

\* _determine_current_status
determine_current_status(j) ==
    IF ~job_exists(j) THEN FAILED
    ELSE IF files[j]["error"] # Absent THEN FAILED
    ELSE IF files[j]["summary"] # Absent
            \/ (files[j]["transcription"] # Absent
                /\ ~should_process_diarization(j)
                /\ ~should_process_summary(j)) THEN COMPLETED
    ELSE IF files[j]["transcription"] # Absent \/ files[j]["progress"] # Absent THEN PROCESSING
    ELSE QUEUED

\* One file operation of the store call thread t is in: _save_json_file and
\* _save_text_file raise ValueError when the job directory is gone; _update_stage
\* and _update_status read metadata.json and write it back, or do nothing when
\* it is not there. update_progress writes progress.json and reads
\* metadata.json for _update_timestamp (one step), which then writes what it
\* read back with a new updated_at (a second step), or does nothing when
\* there was no metadata.
StoreStep(t) ==
    /\ th[t].ops # <<>>
    /\ LET o == Head(th[t].ops)
           j == th[t].job
       IN  IF o.k \in {"write", "progress", "timestamp"} /\ ~job_exists(j)
           THEN /\ th' = [th EXCEPT ![t] = Settle(t, [@ EXCEPT !.ops = <<>>, !.pc = th[t].onerr,
                                                              !.exc = JobDoesNotExist,
                                                              !.snap = NoSnap])]
                /\ UNCHANGED <<files, meta>>
           ELSE IF o.k = "write"
           THEN /\ files' = [files EXCEPT ![j][o.f] = o.v]
                /\ th' = [th EXCEPT ![t] = Settle(t, [@ EXCEPT !.ops = Tail(@)])]
                /\ UNCHANGED meta
           ELSE IF o.k = "progress"
           THEN /\ files' = [files EXCEPT ![j][o.f] = o.v]
                /\ th' = [th EXCEPT ![t] = Settle(t,
                       IF has_metadata(j)
                       THEN [@ EXCEPT !.ops = Tail(@), !.snap = meta[j]]
                       ELSE [@ EXCEPT !.ops = Tail(Tail(@))])]
                /\ UNCHANGED meta
           ELSE IF o.k = "timestamp"
           THEN /\ files' = [files EXCEPT ![j][o.f] = o.v]
                /\ meta' = [meta EXCEPT ![j] = th[t].snap]
                /\ th' = [th EXCEPT ![t] = Settle(t, [@ EXCEPT !.ops = Tail(@), !.snap = NoSnap])]
           ELSE /\ th' = [th EXCEPT ![t] = Settle(t, [@ EXCEPT !.ops = Tail(@)])]
                /\ UNCHANGED files
                /\ IF has_metadata(j)
                   THEN meta' = [meta EXCEPT ![j][o.k] = o.v]
                   ELSE UNCHANGED meta
    /\ UNCHANGED <<jobdir, options, environ, merge, queueVars, submitted, calls>>


\* ------------------------------------------------------------------ AudioProcessor
\* process_audio_file from stage 3 on: summarization if enabled, else the
\* explicit update_stage(COMPLETE)
Stage3Ops(j) ==
    IF options[j].enable_summarization
    THEN update_stage(SUMMARIZING) \o update_progress("Starting summarization...")
    ELSE update_stage(COMPLETE)
Stage3Pc(j) == IF options[j].enable_summarization THEN "summarization_text" ELSE "work_item_done"

\* process_audio_file from stage 2 on: _process_diarization up to the diarize
\* call, with its early return when HUGGINGFACE_TOKEN is not set
Stage2Ops(j) ==
    IF ~options[j].enable_diarization THEN Stage3Ops(j)
    ELSE update_stage(DIARIZING) \o update_progress("Starting diarization...") \o
         (IF ~environ.hf_token
          THEN update_progress("Diarization skipped (no token)") \o Stage3Ops(j)
          ELSE update_progress("Performing speaker diarization..."))
Stage2Pc(j) ==
    IF options[j].enable_diarization /\ environ.hf_token THEN "diarize" ELSE Stage3Pc(j)

\* options.get("llm_api_key") or os.getenv("OPENAI_API_KEY")
openai_key(j) == options[j].llm_api_key \/ environ.openai_key

\* _process_job: update_stage(NOT_STARTED) is pending from WorkItemRun; then
\* get_metadata, get_audio_file_path, and the call of process_audio_file,
\* which starts _process_transcription
ProcessJob(w) ==
    /\ At(w, "process_job")
    /\ LET j == th[w].job IN
       th' = [th EXCEPT ![w] =
           IF ~has_metadata(j)
           THEN [@ EXCEPT !.pc = "process_job_except", !.exc = MetadataNotFound]
           ELSE IF files[j]["audio"] = Absent
           THEN [@ EXCEPT !.pc = "process_job_except", !.exc = AudioNotFound]
           ELSE [@ EXCEPT !.pc = "transcribe", !.onerr = "process_audio_file_except",
                          !.ops = update_stage(TRANSCRIBING)
                                  \o update_progress("Starting transcription...")
                                  \o update_progress("Transcribing audio...")]]
    /\ UNCHANGED <<storeVars, merge, queueVars, submitted, calls>>

\* _process_transcription: the transcriber is loaded and called; it returns a
\* transcript (with text, or blank) or raises
ProcessTranscription(w) ==
    /\ At(w, "transcribe")
    /\ LET j == th[w].job IN
       \E outcome \in {"text", "blank", "raise"} :
           th' = [th EXCEPT ![w] =
               IF outcome = "raise"
               THEN [@ EXCEPT !.pc = "process_audio_file_except", !.exc = TranscribeError]
               ELSE [@ EXCEPT !.pc = Stage2Pc(j),
                              !.ops = save_transcription(outcome)
                                      \o update_progress("Transcription completed")
                                      \o Stage2Ops(j)]]
    /\ UNCHANGED <<storeVars, merge, queueVars, submitted, calls>>

\* _process_diarization: the try block around diarize
ProcessDiarization(w) ==
    /\ At(w, "diarize")
    /\ LET j == th[w].job IN
       \E outcome \in {"segments", "empty", "raise"} :
           th' = [th EXCEPT ![w] =
               IF outcome = "raise"
               THEN [@ EXCEPT !.pc = "diarization_except", !.exc = DiarizeError]
               ELSE IF outcome = "empty"
               THEN [@ EXCEPT !.pc = "stage3", !.onerr = "diarization_except",
                              !.ops = update_progress("Diarization completed (no speakers found)")]
               ELSE IF job_exists(j) /\ files[j]["transcription"] # Absent
               THEN [@ EXCEPT !.pc = "stage3", !.onerr = "diarization_except",
                              !.ops = save_diarization \o update_progress("Diarization completed")]
               ELSE [@ EXCEPT !.pc = "stage3"]]
    /\ UNCHANGED <<storeVars, merge, queueVars, submitted, calls>>

\* _process_diarization: except Exception: a progress message, the job goes on
DiarizationExcept(w) ==
    /\ At(w, "diarization_except")
    /\ th' = [th EXCEPT ![w].pc = "stage3", ![w].exc = NoExc,
                        ![w].onerr = "process_audio_file_except",
                        ![w].ops = update_progress("Diarization failed")]
    /\ UNCHANGED <<storeVars, merge, queueVars, submitted, calls>>

\* process_audio_file after _process_diarization has returned
ProcessStage3(w) ==
    /\ At(w, "stage3")
    /\ th' = [th EXCEPT ![w].pc = Stage3Pc(th[w].job), ![w].exc = NoExc,
                        ![w].onerr = "process_audio_file_except",
                        ![w].ops = Stage3Ops(th[w].job)]
    /\ UNCHANGED <<storeVars, merge, queueVars, submitted, calls>>

\* _process_summarization up to the summarize call: get_transcription, the empty
\* transcript and the missing API key
SummarizationText(w) ==
    /\ At(w, "summarization_text")
    /\ LET j == th[w].job
           transcription == IF job_exists(j) THEN files[j]["transcription"] ELSE Absent
       IN th' = [th EXCEPT ![w] =
           IF transcription = Absent
           THEN [@ EXCEPT !.pc = "work_item_done"]
           ELSE IF transcription = "blank"
           THEN [@ EXCEPT !.pc = "work_item_done",
                          !.ops = update_progress("Summarization skipped (empty transcript)")
                                  \o update_stage(COMPLETE)]
           ELSE IF ~openai_key(j)
           THEN [@ EXCEPT !.pc = "work_item_done",
                          !.ops = update_progress("Summarization skipped (no API key)")
                                  \o update_stage(COMPLETE)]
           ELSE [@ EXCEPT !.pc = "summarize",
                          !.ops = update_progress("Generating summary...")]]
    /\ UNCHANGED <<storeVars, merge, queueVars, submitted, calls>>

\* _process_summarization: the try block around summarize
ProcessSummarization(w) ==
    /\ At(w, "summarize")
    /\ \E outcome \in {"summary", "empty", "raise"} :
           th' = [th EXCEPT ![w] =
               IF outcome = "raise"
               THEN [@ EXCEPT !.pc = "summarization_except", !.exc = SummarizeError]
               ELSE IF outcome = "empty"
               THEN [@ EXCEPT !.pc = "work_item_done", !.onerr = "summarization_except",
                              !.ops = update_progress("Summarization completed (empty result)")
                                      \o update_stage(COMPLETE)]
               ELSE [@ EXCEPT !.pc = "work_item_done", !.onerr = "summarization_except",
                              !.ops = save_summary \o update_progress("Processing complete")]]
    /\ UNCHANGED <<storeVars, merge, queueVars, submitted, calls>>

\* _process_summarization: except Exception: a progress message and COMPLETE
SummarizationExcept(w) ==
    /\ At(w, "summarization_except")
    /\ th' = [th EXCEPT ![w].pc = "work_item_done", ![w].exc = NoExc,
                        ![w].onerr = "process_audio_file_except",
                        ![w].ops = update_progress("Summarization failed")
                                   \o update_stage(COMPLETE)]
    /\ UNCHANGED <<storeVars, merge, queueVars, submitted, calls>>

\* process_audio_file: except Exception: save_error(str(e)); raise
ProcessAudioFileExcept(w) ==
    /\ At(w, "process_audio_file_except")
    /\ th' = [th EXCEPT ![w].pc = "process_job_except", ![w].onerr = "process_job_except",
                        ![w].ops = save_error(th[w].exc)]
    /\ UNCHANGED <<storeVars, merge, queueVars, submitted, calls>>

\* _process_job: except Exception: save_error(str(e)); raise
ProcessJobExcept(w) ==
    /\ At(w, "process_job_except")
    /\ th' = [th EXCEPT ![w].pc = "work_item_done", ![w].onerr = "work_item_done",
                        ![w].ops = save_error(th[w].exc)]
    /\ UNCHANGED <<storeVars, merge, queueVars, submitted, calls>>


\* ------------------------------------------------------------------ Future, ThreadPoolExecutor
Done(f) == futures[f].state \in {CANCELLED, CANCELLED_AND_NOTIFIED, FINISHED}
Created(f) == futures[f].state # "none"
NextFuture == CHOOSE f \in FutureIds : ~Created(f) /\ \A g \in FutureIds : ~Created(g) => f <= g

\* A Future lives as long as something refers to it: its work item in the
\* pool's queue, running_jobs, or a local variable of a thread. One that nothing
\* refers to is garbage: its slot is free again.
Referenced(f, wq, rj, ths) ==
    \/ \E i \in DOMAIN wq : wq[i] = f
    \/ \E i \in DOMAIN rj : rj[i].fut = f
    \/ \E t \in Threads : ths[t].fut = f
Collect(fs) == [f \in FutureIds |->
                   IF Referenced(f, work_queue', running_jobs', th') THEN fs[f] ELSE NoFuture]

\* running_jobs, a dict in insertion order
InRunningJobs(j) == \E i \in DOMAIN running_jobs : running_jobs[i].job = j
RunningFuture(j) == running_jobs[CHOOSE i \in DOMAIN running_jobs : running_jobs[i].job = j].fut
DictSet(d, j, f) ==
    IF \E i \in DOMAIN d : d[i].job = j
    THEN [i \in DOMAIN d |-> IF d[i].job = j THEN [job |-> j, fut |-> f] ELSE d[i]]
    ELSE Append(d, [job |-> j, fut |-> f])
DictDel(d, j) == SelectSeq(d, LAMBDA e : e.job # j)

\* the idle threads of the pool are interchangeable: a work item goes to the first
FirstIdle(w) == \A v \in Workers : At(v, "idle") => w[2] <= v[2]

\* a pool thread takes the next work item (_WorkItem.run): a cancelled future
\* is only notified, any other starts running _process_job, whose first call is
\* update_stage(NOT_STARTED)
WorkItemRun(w) ==
    /\ At(w, "idle")
    /\ FirstIdle(w)
    /\ work_queue # <<>>
    /\ LET f == Head(work_queue) IN
       /\ work_queue' = Tail(work_queue)
       /\ IF futures[f].state = CANCELLED
          THEN th' = th
          ELSE th' = [th EXCEPT ![w] = [IdleThread EXCEPT
                             !.pc = "process_job", !.op = "_process_job",
                             !.job = futures[f].job, !.fut = f,
                             !.onerr = "process_job_except",
                             !.ops = update_stage(NOT_STARTED)]]
    /\ UNCHANGED <<storeVars, merge, is_running, job_queue, running_jobs, lock, shutdown, submitted, calls>>
    /\ futures' = Collect([futures EXCEPT ![Head(work_queue)].state =
                              IF @ = CANCELLED THEN CANCELLED_AND_NOTIFIED ELSE RUNNING])

\* a pool in which an exception of _process_job is not kept in the Future but
\* takes the queue down
WorkItemDoneUncaught(w) ==
    /\ At(w, "work_item_done")
    /\ th' = [th EXCEPT ![w] =
           IF futures[th[w].fut].cb
           THEN [@ EXCEPT !.pc = "job_completed", !.after = "idle"]
           ELSE IdleThread]
    /\ is_running' = (is_running /\ th[w].exc = NoExc)
    /\ UNCHANGED <<storeVars, merge, job_queue, running_jobs, lock, work_queue,
                   shutdown, submitted, calls>>
    /\ futures' = Collect([futures EXCEPT ![th[w].fut].state = FINISHED,
                                          ![th[w].fut].exc = th[w].exc])

\* _process_job has returned or raised: Future.set_result / set_exception, which
\* then invokes the callbacks registered so far, in this thread
WorkItemDone(w) ==
    /\ At(w, "work_item_done")
    /\ LET f == th[w].fut IN
       /\ th' = [th EXCEPT ![w] =
              IF futures[f].cb
              THEN [@ EXCEPT !.pc = "job_completed", !.after = "idle"]
              ELSE IdleThread]
    /\ UNCHANGED <<storeVars, merge, is_running, job_queue, running_jobs, lock, work_queue,
                   shutdown, submitted, calls>>
    /\ futures' = Collect([futures EXCEPT ![th[w].fut].state = FINISHED,
                                          ![th[w].fut].exc = th[w].exc])

\* _job_completed(job_id, future), in whichever thread invokes the callback
JobCompleted(t) ==
    /\ At(t, "job_completed")
    /\ lock = Free
    /\ LET f == th[t].fut IN
       /\ running_jobs' = DictDel(running_jobs, th[t].job)
       /\ th' = [th EXCEPT ![t] = Settle(t,
              IF futures[f].state = FINISHED /\ futures[f].exc # NoExc
              THEN [@ EXCEPT !.pc = th[t].after, !.onerr = th[t].after, !.fut = 0,
                             !.ops = save_error(futures[f].exc)]
              ELSE [@ EXCEPT !.pc = th[t].after, !.fut = 0])]
    /\ UNCHANGED <<storeVars, merge, is_running, job_queue, lock, work_queue, shutdown, submitted, calls>>
    /\ futures' = Collect(futures)

\* ------------------------------------------------------------------ ProcessingQueue._queue_worker
\* while self.is_running
QueueWorkerLoop(d) ==
    /\ At(d, "loop")
    /\ th' = [th EXCEPT ![d].pc = IF is_running THEN "get" ELSE "exited"]
    /\ UNCHANGED <<storeVars, merge, queueVars, submitted, calls>>

\* a get that returns the newest entry instead (LifoQueue)
QueueWorkerGetNewest(d) ==
    /\ At(d, "get")
    /\ job_queue # <<>>
    /\ th' = [th EXCEPT ![d].pc = "submit", ![d].prio = job_queue[Len(job_queue)][1],
                         ![d].job = job_queue[Len(job_queue)][2]]
    /\ job_queue' = SubSeq(job_queue, 1, Len(job_queue) - 1)
    /\ UNCHANGED <<storeVars, merge, is_running, running_jobs, lock, futures, work_queue,
                   shutdown, submitted, calls>>

\* job_queue.get(timeout=...) returns the oldest entry
QueueWorkerGet(d) ==
    /\ At(d, "get")
    /\ job_queue # <<>>
    /\ th' = [th EXCEPT ![d].pc = "submit", ![d].prio = Head(job_queue)[1],
                         ![d].job = Head(job_queue)[2]]
    /\ job_queue' = Tail(job_queue)
    /\ UNCHANGED <<storeVars, merge, is_running, running_jobs, lock, futures, work_queue,
                   shutdown, submitted, calls>>

\* job_queue.get(timeout=...) raises Empty: continue. (While is_running is set
\* the loop comes back to this get with nothing changed: that round is left out.)
QueueWorkerEmpty(d) ==
    /\ At(d, "get")
    /\ job_queue = <<>>
    /\ ~is_running
    /\ th' = [th EXCEPT ![d].pc = "loop"]
    /\ UNCHANGED <<storeVars, merge, queueVars, submitted, calls>>

\* executor.submit(self._process_job, job_id): a new pending Future and work
\* item; after shutdown it raises RuntimeError, which the loop's except logs
ExecutorSubmit(d) ==
    /\ At(d, "submit")
    /\ IF shutdown
       THEN /\ th' = [th EXCEPT ![d] = Settle(d, [@ EXCEPT !.pc = "loop"])]
            /\ UNCHANGED <<futures, work_queue, submitted>>
       ELSE /\ \E f \in FutureIds : ~Created(f)
            /\ work_queue' = Append(work_queue, NextFuture)
            /\ th' = [th EXCEPT ![d].pc = "record", ![d].fut = NextFuture]
            /\ futures' = [futures EXCEPT ![NextFuture] =
                              [job |-> th[d].job, state |-> PENDING, exc |-> NoExc, cb |-> FALSE]]
            /\ submitted' = submitted \cup {th[d].job}
    /\ UNCHANGED <<storeVars, merge, is_running, job_queue, running_jobs, lock, shutdown, calls>>

\* with self._lock: self.running_jobs[job_id] = future
RecordRunningJob(d) ==
    /\ At(d, "record")
    /\ lock = Free
    /\ running_jobs' = DictSet(running_jobs, th[d].job, th[d].fut)
    /\ th' = [th EXCEPT ![d].pc = "add_done_callback"]
    /\ UNCHANGED <<storeVars, merge, is_running, job_queue, lock, work_queue, shutdown, submitted, calls>>
    /\ futures' = Collect(futures)

\* future.add_done_callback: registered if the future is not done, else the
\* callback is invoked at once in the dispatch thread
AddDoneCallback(d) ==
    /\ At(d, "add_done_callback")
    /\ IF Done(th[d].fut)
       THEN th' = [th EXCEPT ![d].pc = "job_completed", ![d].after = "loop"]
       ELSE th' = [th EXCEPT ![d] = Settle(d, [@ EXCEPT !.pc = "loop"])]
    /\ UNCHANGED <<storeVars, merge, is_running, job_queue, running_jobs, lock, work_queue,
                   shutdown, submitted, calls>>
    /\ futures' = Collect([futures EXCEPT ![th[d].fut].cb = ~Done(th[d].fut)])

\* ------------------------------------------------------------------ ProcessingQueue, the API
\* a caller starts a call: its record keeps the call, its argument and, once it
\* has returned, its result
Call(op, j) == [IdleThread EXCEPT !.op = op, !.job = j]
Returned(c, op, j, ret) == At(c, "idle") /\ th[c].op = op /\ th[c].job = j /\ th[c].ret = ret

\* start() as it would be without the is_running test: a new queue thread
\* on every call
StartUnguarded(c) ==
    /\ At(c, "idle")
    /\ is_running' = TRUE
    /\ \E d \in Dispatchers :
            th' = [th EXCEPT ![c] = [Call("start", 0) EXCEPT !.ret = "None"],
                             ![d] = [IdleThread EXCEPT !.pc = "loop"]]
    /\ UNCHANGED <<storeVars, merge, job_queue, running_jobs, lock, futures, work_queue, shutdown,
                   submitted, calls>>

\* start(): a no-op when already running, else the flag and a new queue thread
Start(c) ==
    /\ At(c, "idle")
    /\ IF is_running
       THEN /\ th' = [th EXCEPT ![c] = [Call("start", 0) EXCEPT !.ret = "None"]]
            /\ UNCHANGED is_running
       ELSE \E d \in Dispatchers :
            /\ th[d].pc \in {"idle", "exited"}
            /\ is_running' = TRUE
            /\ th' = [th EXCEPT ![c] = [Call("start", 0) EXCEPT !.ret = "None"],
                                ![d] = [IdleThread EXCEPT !.pc = "loop"]]
    /\ UNCHANGED <<storeVars, merge, job_queue, running_jobs, lock, futures, work_queue, shutdown,
                   submitted, calls>>

\* job j is executing in a pool thread: _process_job(j) has been entered and
\* the work item has not finished
Executing(w, j) == th[w].op = "_process_job" /\ th[w].job = j /\ th[w].pc # "job_completed"

\* enqueue_job as it would be without the is_running test
EnqueueEntryAnyState(j, priority) ==
    [Call("enqueue_job", j) EXCEPT !.pc = "enqueue_check", !.prio = priority,
                                   !.busy = \E w \in Workers : Executing(w, j)]

\* enqueue_job: if not self.is_running: return False. (busy remembers for the
\* properties whether the job was executing when the call was made.)
EnqueueEntry(j, priority) ==
    IF is_running
    THEN [Call("enqueue_job", j) EXCEPT !.pc = "enqueue_check", !.prio = priority,
                                        !.busy = \E w \in Workers : Executing(w, j)]
    ELSE [Call("enqueue_job", j) EXCEPT !.ret = "False", !.prio = priority]
EnqueueJob(c, j, priority) ==
    /\ At(c, "idle")
    /\ calls.enqueue < MaxEnqueue
    /\ calls' = [calls EXCEPT !.enqueue = @ + 1]
    /\ th' = [th EXCEPT ![c] = EnqueueEntry(j, priority)]
    /\ UNCHANGED <<storeVars, merge, queueVars, submitted>>

\* enqueue_job: with self._lock: if job_id in self.running_jobs: return False
EnqueueCheck(c) ==
    /\ At(c, "enqueue_check")
    /\ lock = Free
    /\ th' = [th EXCEPT ![c] =
           IF InRunningJobs(th[c].job)
           THEN [@ EXCEPT !.pc = "idle", !.ret = "False"]
           ELSE [@ EXCEPT !.pc = "enqueue_put"]]
    /\ UNCHANGED <<storeVars, merge, queueVars, submitted, calls>>

\* enqueue_job: self.job_queue.put((priority, job_id)); return True
EnqueuePut(c) ==
    /\ At(c, "enqueue_put")
    /\ job_queue' = Append(job_queue, <<th[c].prio, th[c].job>>)
    /\ th' = [th EXCEPT ![c].pc = "idle", ![c].ret = "True"]
    /\ UNCHANGED <<storeVars, merge, is_running, running_jobs, lock, futures, work_queue, shutdown,
                   submitted, calls>>

\* cancel_job as it would be if a job that only waits in the intake queue
\* counted as cancelled
CancelJobOfQueued(c, j) ==
    /\ At(c, "idle")
    /\ lock = Free
    /\ th' = [th EXCEPT ![c] = [Call("cancel_job", j) EXCEPT
                  !.ret = IF \E i \in DOMAIN job_queue : job_queue[i][2] = j
                          THEN "True" ELSE "False"]]
    /\ UNCHANGED <<storeVars, merge, queueVars, submitted, calls>>

\* cancel_job, from taking the lock to future.cancel(): Future.cancel sets a
\* pending future CANCELLED and then invokes its callbacks in this thread, which
\* still holds _lock (the callback waits for _lock: the thread waits for
\* itself); on True the entry is deleted and save_error is called, still under
\* the lock
CancelJob(c, j) ==
    /\ At(c, "idle")
    /\ lock = Free
    /\ LET f == IF InRunningJobs(j) THEN RunningFuture(j) ELSE 0
           cancelled == f # 0 /\ futures[f].state \notin {RUNNING, FINISHED}
           callback == cancelled /\ futures[f].state = PENDING /\ futures[f].cb
       IN /\ lock' = IF cancelled THEN c ELSE lock
          /\ running_jobs' = IF cancelled /\ ~callback THEN DictDel(running_jobs, j)
                                                        ELSE running_jobs
          /\ th' = [th EXCEPT ![c] =
                 IF ~cancelled THEN [Call("cancel_job", j) EXCEPT !.ret = "False"]
                 ELSE IF callback
                 THEN [Call("cancel_job", j) EXCEPT
                          !.pc = "job_completed", !.fut = f, !.after = "cancel_end"]
                 ELSE [Call("cancel_job", j) EXCEPT
                          !.pc = "cancel_end", !.onerr = "cancel_end",
                          !.ops = save_error(CancelledByUser)]]
          /\ UNCHANGED <<storeVars, merge, is_running, job_queue, work_queue, shutdown, submitted,
                         calls>>
          /\ futures' = Collect([g \in FutureIds |->
                 IF g = f /\ futures[g].state = PENDING
                 THEN [futures[g] EXCEPT !.state = CANCELLED] ELSE futures[g]])

\* cancel_job leaves the with block: the lock is released, True is returned or
\* the exception of save_error propagates
CancelEnd(c) ==
    /\ At(c, "cancel_end")
    /\ lock' = Free
    /\ th' = [th EXCEPT ![c].pc = "idle",
                        ![c].ret = IF th[c].exc = NoExc THEN "True" ELSE "raised"]
    /\ UNCHANGED <<storeVars, merge, is_running, job_queue, running_jobs, futures, work_queue,
                   shutdown, submitted, calls>>

\* stop(): a no-op when not running, else the flag is cleared
Stop(c) ==
    /\ At(c, "idle")
    /\ IF is_running
       THEN /\ is_running' = FALSE
            /\ th' = [th EXCEPT ![c] = [Call("stop", 0) EXCEPT !.pc = "stop_join"]]
       ELSE /\ th' = [th EXCEPT ![c] = [Call("stop", 0) EXCEPT !.ret = "None"]]
            /\ UNCHANGED is_running
    /\ UNCHANGED <<storeVars, merge, job_queue, running_jobs, lock, futures, work_queue, shutdown,
                   submitted, calls>>

\* the queue thread cannot end: it waits for _lock, whose holder waits for it too
QueueThreadStuck(d) ==
    /\ th[d].pc \in {"record", "job_completed"}
    /\ th[d].ops = <<>>
    /\ lock # Free
    /\ th[lock].pc = "job_completed"

\* stop(): self.queue_thread.join(timeout=5.0) returns when the queue thread
\* has ended; the timeout runs out only on a queue thread that cannot end
StopJoin(c) ==
    /\ At(c, "stop_join")
    /\ \A d \in Dispatchers : th[d].pc \in {"idle", "exited"} \/ QueueThreadStuck(d)
    /\ th' = [th EXCEPT ![c].pc = "stop_cancel"]
    /\ UNCHANGED <<storeVars, merge, queueVars, submitted, calls>>

\* stop(): with self._lock: future.cancel() for every future of running_jobs
\* that is not done, in the dict's order; the first pending future that has its
\* callback registered runs _job_completed in this thread, under the lock
FirstCallback ==
    LET hit == {i \in DOMAIN running_jobs :
                   /\ futures[running_jobs[i].fut].state = PENDING
                   /\ futures[running_jobs[i].fut].cb}
    IN IF hit = {} THEN 0 ELSE CHOOSE i \in hit : \A k \in hit : i <= k
StopCancel(c) ==
    /\ At(c, "stop_cancel")
    /\ lock = Free
    /\ LET last == IF FirstCallback = 0 THEN Len(running_jobs) ELSE FirstCallback
           hit == {running_jobs[i].fut : i \in 1..last}
       IN /\ futures' = [f \in FutureIds |->
                 IF f \in hit /\ futures[f].state = PENDING
                 THEN [futures[f] EXCEPT !.state = CANCELLED] ELSE futures[f]]
          /\ IF FirstCallback = 0
             THEN /\ th' = [th EXCEPT ![c].pc = "stop_shutdown"]
                  /\ UNCHANGED lock
             ELSE /\ th' = [th EXCEPT ![c].pc = "job_completed",
                                      ![c].job = running_jobs[FirstCallback].job,
                                      ![c].fut = running_jobs[FirstCallback].fut,
                                      ![c].after = "stop_cancel"]
                  /\ lock' = c
    /\ UNCHANGED <<storeVars, merge, is_running, job_queue, running_jobs, work_queue, shutdown,
                   submitted, calls>>

\* stop(): self.executor.shutdown(wait=True) sets the shutdown flag ...
StopShutdown(c) ==
    /\ At(c, "stop_shutdown")
    /\ shutdown' = TRUE
    /\ th' = [th EXCEPT ![c].pc = "stop_wait"]
    /\ UNCHANGED <<storeVars, merge, is_running, job_queue, running_jobs, lock, futures, work_queue,
                   submitted, calls>>

\* ... and joins the pool threads, which first work off the work items left
StopWait(c) ==
    /\ At(c, "stop_wait")
    /\ work_queue = <<>>
    /\ \A w \in Workers : At(w, "idle")
    /\ th' = [th EXCEPT ![c].pc = "idle", ![c].ret = "None"]
    /\ UNCHANGED <<storeVars, merge, queueVars, submitted, calls>>

\* ------------------------------------------------------------------ JobManager, the API
\* the options an upload may carry: each absent key takes the default True
OptionBags == [enable_diarization : BOOLEAN, enable_summarization : BOOLEAN,
               llm_api_key : BOOLEAN]
DefaultOptions == [enable_diarization |-> TRUE, enable_summarization |-> TRUE,
                   llm_api_key |-> FALSE]
NoOptionalStages == [enable_diarization |-> FALSE, enable_summarization |-> FALSE,
                     llm_api_key |-> FALSE]

\* create_job followed by save_audio_file: the job directory with metadata.json
\* (stage not_started, status queued) and audio.wav
NewJobFiles == [NoFiles EXCEPT !["metadata"] = "json", !["audio"] = "wav"]

\* the upload handler: create_job, save_audio_file, then enqueue_job(job_id),
\* whose result the handler ignores
Upload(c, o) ==
    /\ At(c, "idle")
    /\ calls.created < MaxUploads
    /\ LET j == calls.created + 1 IN
       /\ calls' = [calls EXCEPT !.created = j]
       /\ jobdir' = [jobdir EXCEPT ![j] = TRUE]
       /\ files' = [files EXCEPT ![j] = NewJobFiles]
       /\ meta' = [meta EXCEPT ![j] = NoMetadata]
       /\ options' = [options EXCEPT ![j] = o]
       /\ th' = [th EXCEPT ![c] = EnqueueEntry(j, 0)]
    /\ UNCHANGED <<environ, merge, queueVars, submitted>>

\* list_jobs, the loop body for one job directory: metadata = get_metadata(job_id)
ListJobs(c, j) ==
    /\ At(c, "idle")
    /\ calls.lists < MaxLists
    /\ has_metadata(j)
    /\ calls' = [calls EXCEPT !.lists = @ + 1]
    /\ th' = [th EXCEPT ![c] = [Call("list_jobs", j) EXCEPT !.pc = "list_status", !.snap = meta[j]]]
    /\ UNCHANGED <<storeVars, merge, queueVars, submitted>>

\* a list_jobs that trusts the status it read from metadata.json
ListJobsStatusCached(c) ==
    /\ At(c, "list_status")
    /\ th' = [th EXCEPT ![c].pc = "idle", ![c].ret = th[c].snap.status]
    /\ UNCHANGED <<storeVars, merge, queueVars, submitted, calls>>

\* list_jobs, the rest of the loop body: the status is determined from the files
\* and compared with the one read.  current_status is a JobStatus member and
\* metadata.get("status") is a str; JobStatus is a plain Enum, so
\* `current_status != metadata.get("status")` is True whatever the two are,
\* and the metadata read is saved with the determined status on every call.
ListJobsStatus(c) ==
    /\ At(c, "list_status")
    /\ LET j == th[c].job
           current_status == determine_current_status(j)
       IN IF ~job_exists(j)
          THEN /\ th' = [th EXCEPT ![c].pc = "idle", ![c].ret = "raised"]
               /\ UNCHANGED meta
          ELSE /\ meta' = [meta EXCEPT ![j] = [th[c].snap EXCEPT !.status = current_status]]
               /\ th' = [th EXCEPT ![c].pc = "idle", ![c].ret = current_status,
                                   ![c].saved = TRUE]
    /\ UNCHANGED <<jobdir, files, options, environ, merge, queueVars, submitted, calls>>

\* create_job as it would be if it took the first identifier that has no
\* directory
CreateJobReusing(c, o) ==
    /\ At(c, "idle")
    /\ calls.created < NumJobs
    /\ \E j \in Jobs :
          /\ ~jobdir[j] /\ \A k \in Jobs : ~jobdir[k] => j <= k
          /\ jobdir' = [jobdir EXCEPT ![j] = TRUE]
          /\ files' = [files EXCEPT ![j] = [NoFiles EXCEPT !["metadata"] = "json"]]
          /\ meta' = [meta EXCEPT ![j] = NoMetadata]
          /\ options' = [options EXCEPT ![j] = o]
          /\ th' = [th EXCEPT ![c] = [Call("create_job", j) EXCEPT !.ret = "job_id"]]
    /\ calls' = [calls EXCEPT !.created = @ + 1]
    /\ UNCHANGED <<environ, merge, queueVars, submitted>>

\* create_job: a new identifier (uuid4), its directory, and metadata.json with
\* the options, stage not_started and status queued
CreateJob(c, o) ==
    /\ At(c, "idle")
    /\ calls.created < NumJobs
    /\ LET j == calls.created + 1 IN
       /\ calls' = [calls EXCEPT !.created = j]
       /\ jobdir' = [jobdir EXCEPT ![j] = TRUE]
       /\ files' = [files EXCEPT ![j] = [NoFiles EXCEPT !["metadata"] = "json"]]
       /\ meta' = [meta EXCEPT ![j] = NoMetadata]
       /\ options' = [options EXCEPT ![j] = o]
       /\ th' = [th EXCEPT ![c] = [Call("create_job", j) EXCEPT !.ret = "job_id"]]
    /\ UNCHANGED <<environ, merge, queueVars, submitted>>

\* get_complete_result with the transcription's segments put over the
\* diarization's
GetCompleteResultRawFirst(c, j) ==
    /\ At(c, "idle")
    /\ th' = [th EXCEPT ![c] =
           IF ~has_metadata(j)
           THEN [Call("get_complete_result", j) EXCEPT !.ret = "None"]
           ELSE [Call("get_complete_result", j) EXCEPT
                    !.ret = "result",
                    !.segments = IF files[j]["transcription"] # Absent THEN "segments"
                                 ELSE IF files[j]["diarization"] # Absent
                                 THEN files[j]["diarization"]
                                 ELSE "[]",
                    !.summary = IF files[j]["summary"] # Absent
                                THEN files[j]["summary"] ELSE "None"]]
    /\ UNCHANGED <<storeVars, merge, queueVars, submitted, calls>>

\* get_complete_result: None without the directory or metadata.json; else the
\* transcription's segments, replaced by the diarization's
\* segments_with_speakers when diarization.json is there, and the summary text
\* when summary.txt is there
GetCompleteResult(c, j) ==
    /\ At(c, "idle")
    /\ th' = [th EXCEPT ![c] =
           IF ~has_metadata(j)
           THEN [Call("get_complete_result", j) EXCEPT !.ret = "None"]
           ELSE [Call("get_complete_result", j) EXCEPT
                    !.ret = "result",
                    !.segments = IF files[j]["diarization"] # Absent
                                 THEN files[j]["diarization"]
                                 ELSE IF files[j]["transcription"] # Absent THEN "segments"
                                 ELSE "[]",
                    !.summary = IF files[j]["summary"] # Absent
                                THEN files[j]["summary"] ELSE "None"]]
    /\ UNCHANGED <<storeVars, merge, queueVars, submitted, calls>>

\* list_jobs, the loop body for a directory without metadata.json (`if not
\* metadata: continue`), or no loop body at all for a job that has no directory
ListJobsSkip(c, j) ==
    /\ At(c, "idle")
    /\ calls.lists < MaxLists
    /\ ~has_metadata(j)
    /\ calls' = [calls EXCEPT !.lists = @ + 1]
    /\ th' = [th EXCEPT ![c] = [Call("list_jobs", j) EXCEPT !.ret = "not listed"]]
    /\ UNCHANGED <<storeVars, merge, queueVars, submitted>>

\* get_metadata: None without the job directory or without metadata.json
GetMetadata(c, j) ==
    /\ At(c, "idle")
    /\ th' = [th EXCEPT ![c] = [Call("get_metadata", j) EXCEPT
                                   !.ret = IF has_metadata(j) THEN "json" ELSE "None",
                                   !.snap = IF has_metadata(j) THEN meta[j] ELSE NoSnap]]
    /\ UNCHANGED <<storeVars, merge, queueVars, submitted, calls>>

\* delete_job: False without the job directory; else shutil.rmtree(job_dir),
\* which lists the directory's entries, then unlinks them one by one, then
\* removes the directory
DeleteJob(c, j) ==
    /\ At(c, "idle")
    /\ th' = [th EXCEPT ![c] =
           IF ~job_exists(j)
           THEN [Call("delete_job", j) EXCEPT !.ret = "False"]
           ELSE [Call("delete_job", j) EXCEPT !.pc = "delete_unlink",
                                             !.entries = {f \in FILES : files[j][f] # Absent}]]
    /\ UNCHANGED <<storeVars, merge, queueVars, submitted, calls>>

\* rmtree unlinks one of the entries it listed, in the directory's order
DeleteUnlink(c) ==
    /\ At(c, "delete_unlink")
    /\ \E f \in th[c].entries :
          /\ files' = [files EXCEPT ![th[c].job][f] = Absent]
          /\ meta' = IF f = "metadata" THEN [meta EXCEPT ![th[c].job] = NoMetadata] ELSE meta
          /\ th' = [th EXCEPT ![c].entries = @ \ {f}]
    /\ UNCHANGED <<jobdir, options, environ, merge, queueVars, submitted, calls>>

\* rmtree removes the directory: os.rmdir raises OSError (directory not empty)
\* when a file was written into it after the listing, and delete_job raises
DeleteRmdir(c) ==
    /\ At(c, "delete_unlink")
    /\ th[c].entries = {}
    /\ IF files[th[c].job] = NoFiles
       THEN /\ jobdir' = [jobdir EXCEPT ![th[c].job] = FALSE]
            /\ th' = [th EXCEPT ![c].pc = "idle", ![c].ret = "True"]
       ELSE /\ th' = [th EXCEPT ![c].pc = "idle", ![c].ret = "raised"]
            /\ UNCHANGED jobdir
    /\ UNCHANGED <<files, meta, options, environ, merge, queueVars, submitted, calls>>

\* ------------------------------------------------------------------ PyannoteDiarizer
\* A transcript segment is a dict with start, end and text; a diarization
\* segment is a tuple (start_time, end_time, speaker_label).
Speakers == {"SPEAKER_00", "SPEAKER_01"}
WhisperSegment ==
    {seg \in [start : 0..MaxTime, end : 0..MaxTime, text : {"text"}] : seg.start <= seg.end}
DiarizationSegment == {dia \in (0..MaxTime) \X (0..MaxTime) \X Speakers : dia[1] < dia[2]}
ListsOf(S, n) == UNION {[1..k -> S] : k \in 0..n}
NoMerge == [pc |-> "none", whisper_segments |-> <<>>, diarization_segments |-> <<>>,
            result_segments |-> <<>>]

\* overlap_duration = max(0, overlap_end - overlap_start)
overlap_duration(segment, dia) ==
    LET max(a, b) == IF a >= b THEN a ELSE b
        min(a, b) == IF a <= b THEN a ELSE b
        overlap_start == max(segment.start, dia[1])
        overlap_end == min(segment.end, dia[2])
    IN max(0, overlap_end - overlap_start)

\* the list overlaps: (overlap_duration, speaker) of every diarization segment
\* with overlap_duration > 0, in the order of the diarization list
overlaps_of(segment, diarization_segments) ==
    SelectSeq([k \in 1..Len(diarization_segments) |->
                  <<overlap_duration(segment, diarization_segments[k]),
                    diarization_segments[k][3]>>],
              LAMBDA x : x[1] > 0)

\* list.sort(reverse=True, key=lambda x: x[0]): a stable sort, and reverse
\* keeps the original order of the elements with equal keys.  As an insertion
\* sort: each element goes behind the elements whose key is not smaller.
RECURSIVE insert_after_equal(_, _)
insert_after_equal(sorted, x) ==
    IF sorted = <<>> THEN <<x>>
    ELSE IF Head(sorted)[1] >= x[1] THEN <<Head(sorted)>> \o insert_after_equal(Tail(sorted), x)
    ELSE <<x>> \o sorted
RECURSIVE sort_reverse(_)
sort_reverse(overlaps) ==
    IF overlaps = <<>> THEN <<>>
    ELSE insert_after_equal(sort_reverse(SubSeq(overlaps, 1, Len(overlaps) - 1)),
                            overlaps[Len(overlaps)])

assigned_speaker_unsorted(segment, diarization_segments) ==
    LET overlaps == overlaps_of(segment, diarization_segments)
    IN IF overlaps # <<>> THEN overlaps[1][2] ELSE "UNKNOWN"
assigned_speaker(segment, diarization_segments) ==
    LET overlaps == overlaps_of(segment, diarization_segments)
    IN IF overlaps # <<>> THEN sort_reverse(overlaps)[1][2] ELSE "UNKNOWN"

assign_speakers_to_segments(whisper_segments, diarization_segments) ==
    IF diarization_segments = <<>> THEN whisper_segments
    ELSE [i \in 1..Len(whisper_segments) |->
             [start |-> whisper_segments[i].start, end |-> whisper_segments[i].end,
              text |-> whisper_segments[i].text,
              speaker |-> assigned_speaker(whisper_segments[i], diarization_segments)]]

\* one call of the speaker merge
AssignSpeakers ==
    /\ merge.pc = "call"
    /\ merge' = [merge EXCEPT !.pc = "returned",
                              !.result_segments =
                                  assign_speakers_to_segments(merge.whisper_segments,
                                                              merge.diarization_segments)]
    /\ UNCHANGED <<storeVars, queueVars, th, submitted, calls>>

\* ------------------------------------------------------------------ specifications
Environs == [hf_token : BOOLEAN, openai_key : BOOLEAN]
NoCredentials == [hf_token |-> FALSE, openai_key |-> FALSE]

\* The state once the server module is loaded: the queue is constructed and
\* started (the queue thread is about to test is_running), and the jobs
\* directory holds the jobs in stored, each as its upload left it.
InitWith(envs, stored, bag) ==
    /\ jobdir = [j \in Jobs |-> j \in stored]
    /\ files = [j \in Jobs |-> IF j \in stored THEN NewJobFiles ELSE NoFiles]
    /\ meta = [j \in Jobs |-> NoMetadata]
    /\ options = [j \in Jobs |-> bag]
    /\ environ \in envs
    /\ merge = NoMerge
    /\ is_running = TRUE
    /\ job_queue = <<>>
    /\ running_jobs = <<>>
    /\ lock = Free
    /\ futures = [f \in FutureIds |-> NoFuture]
    /\ work_queue = <<>>
    /\ shutdown = FALSE
    /\ th = [t \in Threads |-> IF t \in Dispatchers THEN [IdleThread EXCEPT !.pc = "loop"]
                                                    ELSE IdleThread]
    /\ submitted = {}
    /\ calls = [enqueue |-> 0, lists |-> 0, created |-> Cardinality(stored)]

\* the steps of the pool threads and of the queue thread
PoolStep ==
    \/ \E t \in Threads : StoreStep(t)
    \/ \E t \in Threads : JobCompleted(t)
    \/ \E w \in Workers : WorkItemRun(w)
    \/ \E w \in Workers : ProcessJob(w)
    \/ \E w \in Workers : ProcessTranscription(w)
    \/ \E w \in Workers : ProcessAudioFileExcept(w)
    \/ \E w \in Workers : ProcessJobExcept(w)
    \/ \E w \in Workers : WorkItemDone(w)
    \/ \E d \in Dispatchers : QueueWorkerLoop(d)
    \/ \E d \in Dispatchers : QueueWorkerGet(d)
    \/ \E d \in Dispatchers : ExecutorSubmit(d)
    \/ \E d \in Dispatchers : RecordRunningJob(d)
    \/ \E d \in Dispatchers : AddDoneCallback(d)

\* the optional stages of the pipeline
OptionalStageStep ==
    \/ \E w \in Workers : ProcessDiarization(w)
    \/ \E w \in Workers : DiarizationExcept(w)
    \/ \E w \in Workers : ProcessStage3(w)
    \/ \E w \in Workers : SummarizationText(w)
    \/ \E w \in Workers : ProcessSummarization(w)
    \/ \E w \in Workers : SummarizationExcept(w)

\* what a call in progress does next
CallStep ==
    \/ \E c \in Clients : EnqueueCheck(c)
    \/ \E c \in Clients : EnqueuePut(c)
    \/ \E c \in Clients : CancelEnd(c)
    \/ \E c \in Clients : StopJoin(c)
    \/ \E c \in Clients : StopCancel(c)
    \/ \E c \in Clients : StopShutdown(c)
    \/ \E c \in Clients : StopWait(c)

\* The scheduler: callers enqueue, cancel and stop, on stored jobs whose options
\* disable both optional stages.
Init == InitWith({NoCredentials}, Jobs, NoOptionalStages)
Next ==
    \/ PoolStep
    \/ \E d \in Dispatchers : QueueWorkerEmpty(d)
    \/ CallStep
    \/ \E c \in Clients, j \in Jobs : EnqueueJob(c, j, 0)
    \/ \E c \in Clients, j \in Jobs : CancelJob(c, j)
    \/ \E c \in Clients : Stop(c)
    \/ \E c \in Clients : Start(c)
Spec == Init /\ [][Next]_vars

\* A burst: MaxBurst enqueue_job calls, with any priorities, returned True
\* before the queue thread took its first entry; no further calls are made.
Priorities == {0, 1}
Bursts == {b \in [1..MaxBurst -> Priorities \X Jobs] :
              \A i \in 1..MaxBurst : b[i][2] = ((i - 1) % NumJobs) + 1}
InitBurst ==
    /\ jobdir = [j \in Jobs |-> TRUE]
    /\ files = [j \in Jobs |-> NewJobFiles]
    /\ meta = [j \in Jobs |-> NoMetadata]
    /\ options = [j \in Jobs |-> NoOptionalStages]
    /\ environ = NoCredentials
    /\ merge = NoMerge
    /\ is_running = TRUE
    /\ job_queue \in Bursts
    /\ running_jobs = <<>>
    /\ lock = Free
    /\ futures = [f \in FutureIds |-> NoFuture]
    /\ work_queue = <<>>
    /\ shutdown = FALSE
    /\ th = [t \in Threads |-> IF t \in Dispatchers THEN [IdleThread EXCEPT !.pc = "loop"]
                                                    ELSE IdleThread]
    /\ submitted = {}
    /\ calls = [enqueue |-> MaxEnqueue, lists |-> 0, created |-> NumJobs]
NextBurst == PoolStep
SpecBurst == InitBurst /\ [][NextBurst]_vars

\* The jobs directory as the server finds it when it starts: one job with
\* metadata.json and audio.wav and any of the other files, any options and any
\* stored stage and status; callers list it.
FoundFiles ==
    {fs \in [FILES -> {Absent, "json", "wav", "text", "segments_with_speakers",
                       "summary", TranscribeError, "Transcribing audio..."}] :
        /\ fs["metadata"] = "json" /\ fs["audio"] = "wav"
        /\ fs["transcription"] \in {Absent, "text"}
        /\ fs["diarization"] \in {Absent, "segments_with_speakers"}
        /\ fs["summary"] \in {Absent, "summary"}
        /\ fs["error"] \in {Absent, TranscribeError}
        /\ fs["progress"] \in {Absent, "Transcribing audio..."}}
InitStatus ==
    /\ jobdir = [j \in Jobs |-> j = 1]
    /\ \E fs \in FoundFiles : files = [j \in Jobs |-> IF j = 1 THEN fs ELSE NoFiles]
    /\ \E m \in [stage : JobStage, status : JobStatus] :
           meta = [j \in Jobs |-> IF j = 1 THEN m ELSE NoMetadata]
    /\ \E o \in OptionBags : options = [j \in Jobs |-> IF j = 1 THEN o ELSE DefaultOptions]
    /\ environ = NoCredentials
    /\ merge = NoMerge
    /\ is_running = TRUE
    /\ job_queue = <<>>
    /\ running_jobs = <<>>
    /\ lock = Free
    /\ futures = [f \in FutureIds |-> NoFuture]
    /\ work_queue = <<>>
    /\ shutdown = FALSE
    /\ th = [t \in Threads |-> IF t \in Dispatchers THEN [IdleThread EXCEPT !.pc = "get"]
                                                    ELSE IdleThread]
    /\ submitted = {}
    /\ calls = [enqueue |-> 0, lists |-> 0, created |-> 1]
NextStatus ==
    \/ \E c \in Clients, j \in Jobs : ListJobs(c, j)
    \/ \E c \in Clients : ListJobsStatus(c)
SpecStatus == InitStatus /\ [][NextStatus]_vars

\* Deletes: one job has been accepted by enqueue_job and is dispatched and run
\* while callers delete jobs, read their metadata and list them.
InitDelete ==
    /\ jobdir = [j \in Jobs |-> TRUE]
    /\ files = [j \in Jobs |-> NewJobFiles]
    /\ meta = [j \in Jobs |-> NoMetadata]
    /\ options = [j \in Jobs |-> NoOptionalStages]
    /\ environ = NoCredentials
    /\ merge = NoMerge
    /\ is_running = TRUE
    /\ job_queue = << <<0, 1>> >>
    /\ running_jobs = <<>>
    /\ lock = Free
    /\ futures = [f \in FutureIds |-> NoFuture]
    /\ work_queue = <<>>
    /\ shutdown = FALSE
    /\ th = [t \in Threads |-> IF t \in Dispatchers THEN [IdleThread EXCEPT !.pc = "loop"]
                                                    ELSE IdleThread]
    /\ submitted = {}
    /\ calls = [enqueue |-> MaxEnqueue, lists |-> 0, created |-> NumJobs]
NextDelete ==
    \/ PoolStep
    \/ \E c \in Clients, j \in Jobs : DeleteJob(c, j)
    \/ \E c \in Clients : DeleteUnlink(c)
    \/ \E c \in Clients : DeleteRmdir(c)
    \/ \E c \in Clients, j \in Jobs : GetMetadata(c, j)
    \/ \E c \in Clients, j \in Jobs : ListJobs(c, j)
    \/ \E c \in Clients : ListJobsStatus(c)
    \/ \E c \in Clients, j \in Jobs : ListJobsSkip(c, j)
SpecDelete == InitDelete /\ [][NextDelete]_vars

\* The store alone: the server has started on a jobs directory that holds one
\* job as an earlier run left it, and callers create and delete jobs and read
\* metadata and results.
InitStore ==
    /\ jobdir = [j \in Jobs |-> j = 1]
    /\ LET LeftFiles ==
               {fs \in FoundFiles :
                   /\ fs["diarization"] # Absent => fs["transcription"] # Absent
                   /\ fs["summary"] # Absent => fs["transcription"] # Absent}
           LeftMetadata(fs) ==
               IF fs["error"] # Absent THEN [stage |-> FAILED, status |-> FAILED]
               ELSE IF fs["summary"] # Absent THEN [stage |-> COMPLETE, status |-> COMPLETED]
               ELSE IF fs["diarization"] # Absent
                    THEN [stage |-> DIARIZATION_COMPLETE, status |-> PROCESSING]
               ELSE IF fs["transcription"] # Absent
                    THEN [stage |-> TRANSCRIPTION_COMPLETE, status |-> PROCESSING]
               ELSE IF fs["progress"] # Absent THEN [stage |-> TRANSCRIBING, status |-> PROCESSING]
               ELSE NoMetadata
       IN \E fs \in LeftFiles :
             /\ files = [j \in Jobs |-> IF j = 1 THEN fs ELSE NoFiles]
             /\ meta = [j \in Jobs |-> IF j = 1 THEN LeftMetadata(fs) ELSE NoMetadata]
    /\ options = [j \in Jobs |-> DefaultOptions]
    /\ environ = NoCredentials
    /\ merge = NoMerge
    /\ is_running = TRUE
    /\ job_queue = <<>>
    /\ running_jobs = <<>>
    /\ lock = Free
    /\ futures = [f \in FutureIds |-> NoFuture]
    /\ work_queue = <<>>
    /\ shutdown = FALSE
    /\ th = [t \in Threads |-> IF t \in Dispatchers THEN [IdleThread EXCEPT !.pc = "get"]
                                                    ELSE IdleThread]
    /\ submitted = {}
    /\ calls = [enqueue |-> 0, lists |-> 0, created |-> 1]
NextStore ==
    \/ \E c \in Clients, o \in OptionBags : CreateJob(c, o)
    \/ \E c \in Clients, j \in Jobs : DeleteJob(c, j)
    \/ \E c \in Clients : DeleteUnlink(c)
    \/ \E c \in Clients : DeleteRmdir(c)
    \/ \E c \in Clients, j \in Jobs : GetMetadata(c, j)
    \/ \E c \in Clients, j \in Jobs : GetCompleteResult(c, j)
SpecStore == InitStore /\ [][NextStore]_vars

\* The pipeline: uploads with any options, under any credentials, and list_jobs
\* calls at any time.
InitPipeline == InitWith(Environs, {}, DefaultOptions)
NextPipeline ==
    \/ PoolStep
    \/ OptionalStageStep
    \/ \E c \in Clients, o \in OptionBags : Upload(c, o)
    \/ \E c \in Clients : EnqueueCheck(c)
    \/ \E c \in Clients : EnqueuePut(c)
    \/ \E c \in Clients, j \in Jobs : ListJobs(c, j)
    \/ \E c \in Clients : ListJobsStatus(c)
SpecPipeline == InitPipeline /\ [][NextPipeline]_vars

\* The speaker merge on its own: one call with any transcript segments and any
\* diarization segments.
InitMerge ==
    /\ jobdir = [j \in Jobs |-> FALSE]
    /\ files = [j \in Jobs |-> NoFiles]
    /\ meta = [j \in Jobs |-> NoMetadata]
    /\ options = [j \in Jobs |-> DefaultOptions]
    /\ environ = NoCredentials
    /\ \E ws \in ListsOf(WhisperSegment, MaxWhisper), ds \in ListsOf(DiarizationSegment, MaxDiarization) :
          merge = [NoMerge EXCEPT !.pc = "call", !.whisper_segments = ws,
                                  !.diarization_segments = ds]
    /\ is_running = TRUE
    /\ job_queue = <<>>
    /\ running_jobs = <<>>
    /\ lock = Free
    /\ futures = [f \in FutureIds |-> NoFuture]
    /\ work_queue = <<>>
    /\ shutdown = FALSE
    /\ th = [t \in Threads |-> IF t \in Dispatchers THEN [IdleThread EXCEPT !.pc = "get"]
                                                    ELSE IdleThread]
    /\ submitted = {}
    /\ calls = [enqueue |-> 0, lists |-> 0, created |-> 0]
SpecMerge == InitMerge /\ [][AssignSpeakers]_vars


\* ------------------------------------------------------------------ properties
Terminal(j) == meta[j].status \in {COMPLETED, FAILED}
InIntakeQueue(j) == \E i \in DOMAIN job_queue : job_queue[i][2] = j

\* the step is the start of a cancel_job(j) call by c
CancelCalled(c, j) ==
    /\ At(c, "idle")
    /\ th'[c] # th[c]
    /\ th'[c].op = "cancel_job"
    /\ th'[c].job = j

\* job j has been submitted and nothing of its execution is left: no thread of
\* the queue has it in hand and no Future of it exists
RunOver(j) ==
    /\ j \in submitted
    /\ \A t \in Workers \cup Dispatchers : th[t].job # j
    /\ \A f \in FutureIds : futures[f].job # j

\* C1: at no time are two executions of the pipeline for the same job active
\* in two pool threads, whatever enqueue calls were made.
C1_NoDoubleExecution ==
    \A j \in Jobs : \A w1, w2 \in Workers :
        Executing(w1, j) /\ Executing(w2, j) => w1 = w2

\* C2: an enqueue_job(j) call made while j is executing in a pool thread, and
\* deciding while j is still executing, is rejected: it returns False and goes
\* no further (nothing is put into the intake queue).
C2_EnqueueWhileExecuting ==
    [][\A c \in Clients :
          (/\ th[c].pc = "enqueue_check"
           /\ th'[c].pc # "enqueue_check"
           /\ th[c].busy
           /\ \E w \in Workers : Executing(w, th[c].job))
          => (th'[c].pc = "idle" /\ th'[c].ret = "False" /\ job_queue' = job_queue)]_vars

\* C3: once a job has its error artifact and the stage Failed, no step changes
\* the stored stage to another value.
C3_FailedIsFinal ==
    [][\A j \in Jobs :
          (job_exists(j) /\ files[j]["error"] # Absent /\ meta[j].stage = FAILED)
          => meta'[j].stage = FAILED]_vars

\* C4: every job handed to the pool ends with a terminal status: when neither
\* the pool, nor the queue thread, nor a call in progress can take a step any
\* more, every submitted job has status completed or failed.
C4_SubmittedJobsEnd ==
    \/ ENABLED (PoolStep \/ CallStep \/ \E d \in Dispatchers : QueueWorkerEmpty(d))
    \/ \A j \in submitted : Terminal(j)

\* C5: when process_audio_file returns without an exception (the transcription
\* has succeeded, whatever the optional stages did), the job's stage is complete
\* and it has no error artifact.
C5_TranscribedJobsComplete ==
    \A w \in Workers :
        (At(w, "work_item_done") /\ th[w].exc = NoExc /\ job_exists(th[w].job))
        => (meta[th[w].job].stage = COMPLETE /\ files[th[w].job]["error"] = Absent)

\* C6: after the run of a job whose transcriber raised, the stage and the status
\* are failed, the error artifact is the raised message, no transcription,
\* diarization or summary artifact exists, and list_jobs derives failed.
C6_TranscriptionFailureFails ==
    \A j \in Jobs :
        (RunOver(j) /\ job_exists(j) /\ files[j]["error"] # Absent)
        => /\ files[j]["error"] = TranscribeError
           /\ meta[j].stage = FAILED
           /\ meta[j].status = FAILED
           /\ files[j]["transcription"] = Absent
           /\ files[j]["diarization"] = Absent
           /\ files[j]["summary"] = Absent
           /\ determine_current_status(j) = FAILED

\* C7: default options, diarization done, no summarization credential: a
\* list_jobs call made after the run has left stage complete and status
\* completed reports completed and leaves the stored status completed; there is
\* no summary artifact.
C7_ListAfterRunCompleted ==
    [][\A c \in Clients :
          (/\ th[c].pc = "list_status"
           /\ th'[c].pc = "idle"
           /\ RunOver(th[c].job)
           /\ options[th[c].job] = DefaultOptions
           /\ ~environ.openai_key
           /\ files[th[c].job]["diarization"] # Absent
           /\ files[th[c].job]["error"] = Absent
           /\ meta[th[c].job] = [stage |-> COMPLETE, status |-> COMPLETED]
           /\ th[c].snap = meta[th[c].job])
          => /\ files[th[c].job]["summary"] = Absent
             /\ th'[c].ret = COMPLETED
             /\ meta'[th[c].job].status = COMPLETED]_vars

\* C8: with both optional stages disabled, the stage that follows
\* transcription_complete is complete, the stage is never diarizing,
\* diarization_complete or summarizing, and no diarization or summary artifact
\* ever exists.
C8_CompleteFollowsTranscription ==
    [][\A j \in Jobs :
          (job_exists(j) /\ ~options[j].enable_diarization /\ ~options[j].enable_summarization)
          => /\ (meta[j].stage = TRANSCRIPTION_COMPLETE /\ meta'[j].stage # meta[j].stage)
                   => meta'[j].stage = COMPLETE
             /\ meta'[j].stage \notin {DIARIZING, DIARIZATION_COMPLETE, SUMMARIZING}
             /\ files'[j]["diarization"] = Absent
             /\ files'[j]["summary"] = Absent]_vars

\* C9: a cancel_job(j) call on a job that is in running_jobs with a Future still
\* pending removes j from running_jobs and goes on to write the cancellation
\* error and to return True.
C9_CancelPending ==
    [][\A c \in Clients, j \in Jobs :
          (/\ CancelCalled(c, j)
           /\ InRunningJobs(j)
           /\ futures[RunningFuture(j)].state = PENDING)
          => /\ ~\E i \in DOMAIN running_jobs' : running_jobs'[i].job = j
             /\ th'[c].pc = "cancel_end"
             /\ th'[c].ops = save_error(CancelledByUser)]_vars

\* C10, as stated: a cancel_job(j) call on a job that waits in the intake queue
\* and is not in running_jobs goes on to write the cancellation error and to
\* return True.
C10_CancelQueuedReturnsTrue ==
    [][\A c \in Clients, j \in Jobs :
          (CancelCalled(c, j) /\ InIntakeQueue(j) /\ ~InRunningJobs(j))
          => /\ th'[c].pc = "cancel_end"
             /\ th'[c].ops = save_error(CancelledByUser)]_vars

\* C10, amended: a cancel_job(j) call on a job that waits in the intake queue
\* and is not in running_jobs returns False at once and changes neither the
\* intake queue, nor running_jobs, nor any Future, nor the job store.
C10_CancelQueuedReturnsFalse ==
    [][\A c \in Clients, j \in Jobs :
          (CancelCalled(c, j) /\ InIntakeQueue(j) /\ ~InRunningJobs(j))
          => /\ th'[c].pc = "idle"
             /\ th'[c].ret = "False"
             /\ UNCHANGED <<job_queue, running_jobs, futures, lock, storeVars>>]_vars

\* C10, the case: a cancel_job call has returned False for a job that still
\* waits in the intake queue, untracked, queued and without an error artifact.
C10_CancelQueuedReturned ==
    \E c \in Clients, j \in Jobs :
        /\ Returned(c, "cancel_job", j, "False")
        /\ InIntakeQueue(j)
        /\ ~InRunningJobs(j)
        /\ files[j]["error"] = Absent
        /\ meta[j].status = QUEUED

\* C11: a cancel_job(j) call on a job whose pipeline is executing in a pool
\* thread returns False at once, leaves running_jobs and every Future as they
\* are and writes nothing to the job store.
C11_CancelExecuting ==
    [][\A c \in Clients, j \in Jobs :
          (CancelCalled(c, j) /\ \E w \in Workers : Executing(w, j))
          => /\ th'[c].pc = "idle"
             /\ th'[c].ret = "False"
             /\ UNCHANGED <<running_jobs, futures, lock, storeVars>>]_vars

\* the pool threads that are executing a job's pipeline
ExecutingWorkers == {w \in Workers : \E j \in Jobs : Executing(w, j)}

GetStep(d) == At(d, "get") /\ th'[d].pc = "submit"

\* C13: when the queue thread takes its next entry, no entry pending in
\* job_queue has a lower priority value than the one it takes, whatever the
\* order of the enqueue_job calls.
C13_LowestPriorityFirst ==
    [][\A d \in Dispatchers :
          GetStep(d) => \A i \in 1..Len(job_queue) : th'[d].prio <= job_queue[i][1]]_vars

\* job_queue without its k-th entry
WithoutEntry(q, k) == SubSeq(q, 1, k - 1) \o SubSeq(q, k + 1, Len(q))

\* the queue thread hands the job it took to executor.submit in this step
SubmitStep(d) == At(d, "submit") /\ th'[d].pc = "record"

\* C14: among entries of equal priority the queue thread takes the one that
\* was put into job_queue first, and hands each job it took to the pool
\* before it takes the next one, behind the work items submitted earlier.
C14_FifoWithinPriority ==
    [][\A d \in Dispatchers :
          /\ GetStep(d) =>
                \E k \in 1..Len(job_queue) :
                    /\ job_queue[k] = <<th'[d].prio, th'[d].job>>
                    /\ job_queue' = WithoutEntry(job_queue, k)
                    /\ \A i \in 1..(k - 1) : job_queue[i][1] # job_queue[k][1]
          /\ SubmitStep(d) =>
                /\ job_queue' = job_queue
                /\ Len(work_queue') = Len(work_queue) + 1
                /\ SubSeq(work_queue', 1, Len(work_queue)) = work_queue
                /\ futures'[work_queue'[Len(work_queue')]].job = th[d].job]_vars

\* C14 (witness): the queue thread has taken an entry while another entry of
\* the same priority, put later, is still waiting.
C14_EqualPriorityPending ==
    \E d \in Dispatchers :
        /\ At(d, "submit")
        /\ \E i \in 1..Len(job_queue) : job_queue[i][1] = th[d].prio

\* caller c enters enqueue_job(j) in this step
EnqueueCalled(c, j) ==
    /\ At(c, "idle")
    /\ calls'.enqueue = calls.enqueue + 1
    /\ th'[c].op = "enqueue_job" /\ th'[c].job = j

\* caller c's enqueue_job call returns True in this step
EnqueueReturnsTrue(c) ==
    /\ th[c].op = "enqueue_job" /\ th[c].pc # "idle"
    /\ th'[c].pc = "idle" /\ th'[c].ret = "True"

\* C15: an enqueue_job call made while is_running is false returns False at
\* once and leaves job_queue and running_jobs as they are; and a call that
\* returns True has appended exactly one entry, for its job, to job_queue.
C15_EnqueueStoppedOrPut ==
    [][\A c \in Clients :
          /\ \A j \in Jobs :
                (EnqueueCalled(c, j) /\ ~is_running)
                => /\ th'[c].pc = "idle" /\ th'[c].ret = "False"
                   /\ UNCHANGED <<job_queue, running_jobs, is_running>>
          /\ EnqueueReturnsTrue(c)
                => /\ Len(job_queue') = Len(job_queue) + 1
                   /\ SubSeq(job_queue', 1, Len(job_queue)) = job_queue
                   /\ job_queue'[Len(job_queue')][2] = th[c].job
                   /\ UNCHANGED running_jobs]_vars

\* C15 (witness): an enqueue_job call made after stop() has returned False.
C15_RefusedWhileStopped ==
    \E c \in Clients, j \in Jobs :
        Returned(c, "enqueue_job", j, "False") /\ ~is_running /\ calls.enqueue > 0

\* caller c makes a start() call in this step
StartCalled(c) == At(c, "idle") /\ th'[c] # th[c] /\ th'[c].op = "start"

\* C16: a start() call made while is_running is set changes nothing of the
\* scheduler (flag, queue, running_jobs, lock, Futures, pool, every other
\* thread) and leaves exactly one queue thread alive.
C16_StartWhileRunning ==
    [][\A c \in Clients :
          (StartCalled(c) /\ is_running)
          => /\ UNCHANGED <<queueVars, storeVars, submitted>>
             /\ \A t \in Threads \ {c} : th'[t] = th[t]
             /\ Cardinality({d \in Dispatchers : th'[d].pc \notin {"idle", "exited"}}) = 1]_vars

\* C16 (witness): start() has returned while the queue thread of the first
\* start is in the middle of a dispatch.
C16_StartedAgain ==
    \E c \in Clients, d \in Dispatchers :
        /\ Returned(c, "start", 0, "None")
        /\ is_running
        /\ th[d].pc \in {"submit", "record", "add_done_callback"}

\* C17: a stop() call in progress always has a next step to come (its own, or
\* one of the queue thread or of the pool that it waits for), so it returns
\* once the running jobs have ended; and when stop() has returned with
\* is_running false, no pool thread is executing a job, no work item is left
\* in the pool and the queue thread is not in the middle of a dispatch.
C17_StopReturns ==
    \A c \in Clients :
        /\ (th[c].op = "stop" /\ th[c].pc # "idle")
           => ENABLED (PoolStep \/ CallStep \/ \E d \in Dispatchers : QueueWorkerEmpty(d))
        /\ (Returned(c, "stop", 0, "None") /\ ~is_running)
           => /\ ExecutingWorkers = {}
              /\ work_queue = <<>>
              /\ \A d \in Dispatchers : th[d].pc \notin {"record", "add_done_callback"}

\* C18: every entry of running_jobs is removed when its work item is over
\* (run to the end, raised, or cancelled): once no thread has a step left to
\* take, and no work item waits in the pool or is executing, running_jobs is
\* empty.
C18_RunningJobsEmptied ==
    \/ ENABLED (PoolStep \/ CallStep \/ \E d \in Dispatchers : QueueWorkerEmpty(d))
    \/ (work_queue = <<>> /\ ExecutingWorkers = {}) => running_jobs = <<>>

\* job j's pipeline has raised: the error file holds the exception's message
Raised(j) == files[j].error \in {TranscribeError, AudioNotFound, MetadataNotFound}

\* C19: once a job's pipeline has raised, is_running is still set and the
\* queue thread is still alive, and it goes on dispatching: when no step is
\* left to take, job_queue and the pool's queue are empty, no job is executing
\* and every job submitted has run to completed or failed.
C19_FailureKeepsDispatching ==
    (\E j \in Jobs : Raised(j))
    => /\ is_running
       /\ \A d \in Dispatchers : th[d].pc # "exited"
       /\ \/ ENABLED NextBurst
          \/ /\ job_queue = <<>> /\ work_queue = <<>>
             /\ ExecutingWorkers = {}
             /\ \A j \in submitted : Terminal(j)

\* C19 (witness): a job's pipeline has raised and every pool thread is
\* executing another job, which one of them can only have taken up after the
\* failed run was over.
C19_ExecutingAfterFailure ==
    \E j \in Jobs :
        /\ files[j].error = TranscribeError
        /\ \A w \in Workers : \E k \in Jobs \ {j} : Executing(w, k)

\* the status that follows from the files fs of a job directory and the
\* options o stored with the job, and from nothing else
StatusOfArtifacts(fs, o) ==
    IF fs["error"] # Absent THEN FAILED
    ELSE IF \/ fs["summary"] # Absent
            \/ /\ fs["transcription"] # Absent
               /\ ~(fs["metadata"] # Absent /\ o.enable_diarization)
               /\ ~(fs["metadata"] # Absent /\ o.enable_summarization) THEN COMPLETED
    ELSE IF fs["transcription"] # Absent \/ fs["progress"] # Absent THEN PROCESSING
    ELSE QUEUED

\* caller c's list_jobs call finishes its loop body for a job in this step
ListReported(c) == At(c, "list_status") /\ th'[c].pc = "idle"

\* C20: the status list_jobs reports for a job is the one that follows from
\* the job's files and options alone, whatever status and stage metadata.json
\* held before, and it is the status the call leaves stored in metadata.json.
C20_StatusFromArtifactsOnly ==
    [][\A c \in Clients :
          ListReported(c)
          => LET j == th[c].job
                 derived == StatusOfArtifacts(files[j], options[j])
             IN /\ th'[c].ret = derived
                /\ meta'[j].status = derived]_vars

\* C20 (witness): list_jobs has reported, and stored, a status other than the
\* one it read from metadata.json.
C20_CachedStatusReplaced ==
    \E c \in Clients :
        /\ At(c, "idle")
        /\ th[c].op = "list_jobs"
        /\ th[c].ret \in JobStatus
        /\ th[c].ret # th[c].snap.status
        /\ meta[th[c].job].status = th[c].ret

\* C21: the status list_jobs derives follows the decision table, in this
\* order of precedence: error file present gives failed; else summary file
\* present, or transcription present with enable_diarization and
\* enable_summarization both false, gives completed; else transcription or
\* progress present gives processing; else queued.
C21_DecisionTable ==
    [][\A c \in Clients :
          ListReported(c)
          => LET fs == files[th[c].job]
                 o == options[th[c].job]
                 status == th'[c].ret
                 error == fs["error"] # Absent
                 done == \/ fs["summary"] # Absent
                         \/ /\ fs["transcription"] # Absent
                            /\ ~o.enable_diarization /\ ~o.enable_summarization
                 begun == fs["transcription"] # Absent \/ fs["progress"] # Absent
             IN /\ error => status = FAILED
                /\ (~error /\ done) => status = COMPLETED
                /\ (~error /\ ~done /\ begun) => status = PROCESSING
                /\ (~error /\ ~done /\ ~begun) => status = QUEUED]_vars

\* C21 (witness): list_jobs has reported failed for a job that has both an
\* error file and a summary file.
C21_ErrorBeforeSummary ==
    \E c \in Clients :
        /\ At(c, "idle") /\ th[c].op = "list_jobs" /\ th[c].ret = FAILED
        /\ files[th[c].job]["error"] # Absent
        /\ files[th[c].job]["summary"] # Absent

\* C22: whenever no store call on a job is part-way through its file
\* operations, a job that has an error file has the stored status failed.
C22_ErrorImpliesFailed ==
    \A j \in Jobs :
        (/\ job_exists(j)
         /\ files[j]["error"] # Absent
         /\ \A t \in Threads : th[t].job = j => th[t].ops = <<>>)
        => meta[j].status = FAILED

\* the place of a stage in the pipeline's order
StageRank(stage) ==
    CASE stage = NOT_STARTED -> 0
      [] stage = TRANSCRIBING -> 1
      [] stage = TRANSCRIPTION_COMPLETE -> 2
      [] stage = DIARIZING -> 3
      [] stage = DIARIZATION_COMPLETE -> 4
      [] stage = SUMMARIZING -> 5
      [] stage = COMPLETE -> 6
      [] stage = FAILED -> 7

\* C23: whenever the stored stage of a job changes, it either becomes failed
\* or moves forward in the order not_started < transcribing <
\* transcription_complete < diarizing < diarization_complete < summarizing <
\* complete, starting from a stage other than failed.
C23_StageNeverBackwards ==
    [][\A j \in Jobs :
          (job_exists(j) /\ meta'[j].stage # meta[j].stage)
          => \/ meta'[j].stage = FAILED
             \/ /\ meta[j].stage # FAILED
                /\ StageRank(meta[j].stage) < StageRank(meta'[j].stage)]_vars

Deleting(j) == \E c \in Clients : th[c].op = "delete_job" /\ th[c].job = j /\ th[c].pc # "idle"

\* C25: whenever no delete_job call on a job is part-way through, the job's
\* directory, if there is one, holds metadata.json (no artifact without the
\* job's record, no half-deleted directory), a job without a directory has no
\* files, and no delete_job call has failed.
C25_DeleteWhileExecuting ==
    /\ \A j \in Jobs :
          ~Deleting(j)
          => /\ job_exists(j) => files[j]["metadata"] # Absent
             /\ ~job_exists(j) => files[j] = NoFiles
    /\ \A c \in Clients : ~(th[c].op = "delete_job" /\ th[c].ret = "raised")

\* caller c enters delete_job(j) in this step
DeleteCalled(c, j) ==
    At(c, "idle") /\ th'[c] # th[c] /\ th'[c].op = "delete_job" /\ th'[c].job = j

\* caller c's call op(j) is taking a step
StepOf(c, op, j) == th'[c] # th[c] /\ th'[c].op = op /\ th'[c].job = j

\* what the delete_job contract says of job j in one step
DeleteContract(j) ==
    \A c \in Clients :
        /\ (DeleteCalled(c, j) /\ ~job_exists(j))
           => /\ th'[c].pc = "idle" /\ th'[c].ret = "False"
              /\ UNCHANGED storeVars
        /\ (Deleting(j) /\ th'[c].op = "delete_job" /\ th'[c].pc = "idle")
           => th'[c].ret = "True" /\ ~jobdir'[j]
        /\ (StepOf(c, "get_metadata", j) /\ ~job_exists(j)) => th'[c].ret = "None"
        /\ (StepOf(c, "list_jobs", j) /\ ~job_exists(j)) => th'[c].ret = "not listed"
        /\ StepOf(c, "delete_job", j)
           => \A k \in Jobs \ {j} :
                 files'[k] = files[k] /\ meta'[k] = meta[k] /\ jobdir'[k] = jobdir[k]

\* C26: delete_job on a job without a directory returns False and changes
\* nothing in the store; delete_job on an existing job returns True with the
\* directory gone, after which get_metadata returns None for it and list_jobs
\* does not list it; and no step of a delete_job call changes another job's
\* metadata or files.
C26_DeleteJob == [][\A j \in Jobs : DeleteContract(j)]_vars

\* C28: a step of update_progress on an existing job leaves the job's stored
\* stage and status and every file other than progress.json and
\* metadata.json as they are, and once it has written progress.json that
\* file holds the message of this call.
C28_UpdateProgressFrame ==
    [][\A t \in Threads :
          (/\ th[t].ops # <<>>
           /\ Head(th[t].ops).k \in {"progress", "timestamp"}
           /\ th'[t] # th[t]
           /\ job_exists(th[t].job))
          => LET j == th[t].job
                 o == Head(th[t].ops)
             IN /\ meta'[j].stage = meta[j].stage
                /\ meta'[j].status = meta[j].status
                /\ \A f \in FILES \ {"progress", "metadata"} : files'[j][f] = files[j][f]
                /\ o.k = "progress" => files'[j]["progress"] = o.v]_vars

C29_CompleteResult ==
    [][\A c \in Clients, j \in Jobs :
          (/\ At(c, "idle") /\ th'[c] # th[c]
           /\ th'[c].op = "get_complete_result" /\ th'[c].job = j)
          => /\ ~job_exists(j) => th'[c].ret = "None"
             /\ has_metadata(j) => th'[c].ret = "result"
             /\ th'[c].ret = "result"
                => /\ files[j]["diarization"] # Absent
                      => th'[c].segments = "segments_with_speakers"
                   /\ (files[j]["diarization"] = Absent /\ files[j]["transcription"] # Absent)
                      => th'[c].segments = "segments"
                   /\ th'[c].summary # "None" <=> files[j]["summary"] # Absent
             /\ UNCHANGED <<storeVars, merge, queueVars>>]_vars

\* C29 (witness): a result has been returned with the diarization's segments
\* and a summary for a job that has transcription, diarization and summary
\* files.
C29_MergedSegmentsReturned ==
    \E c \in Clients, j \in Jobs :
        /\ Returned(c, "get_complete_result", j, "result")
        /\ th[c].segments = "segments_with_speakers"
        /\ th[c].summary # "None"
        /\ files[j]["transcription"] # Absent /\ files[j]["diarization"] # Absent

\* C30: the speaker merge returns one segment for each transcript segment, in
\* the same order and with the same start, end and text; its speaker is the
\* label of the diarization segment whose overlap with it,
\* max(0, min(ends) - max(starts)), is the largest and positive, and of the
\* first such segment of the diarization list when several tie; it is UNKNOWN
\* when no diarization segment overlaps, and the segments are returned as they
\* are when the diarization list is empty.  The result is thus a function of
\* the two inputs.
C30_SpeakerOfLargestOverlap ==
    merge.pc = "returned" =>
        LET ws == merge.whisper_segments
            ds == merge.diarization_segments
            rs == merge.result_segments
            \* the largest overlap of segment with any diarization segment
            LargestOverlap(segment) ==
                LET durations == {overlap_duration(segment, ds[k]) : k \in 1..Len(ds)}
                IN CHOOSE d \in durations : \A e \in durations : e <= d
            \* the place in the list of the first segment with that overlap
            FirstLargest(segment) ==
                CHOOSE k \in 1..Len(ds) :
                    /\ overlap_duration(segment, ds[k]) = LargestOverlap(segment)
                    /\ \A m \in 1..(k - 1) :
                          overlap_duration(segment, ds[m]) < LargestOverlap(segment)
        IN IF ds = <<>> THEN rs = ws
           ELSE /\ Len(rs) = Len(ws)
                /\ \A i \in 1..Len(ws) :
                      /\ rs[i].start = ws[i].start
                      /\ rs[i].end = ws[i].end
                      /\ rs[i].text = ws[i].text
                      /\ rs[i].speaker =
                            IF LargestOverlap(ws[i]) > 0
                            THEN ds[FirstLargest(ws[i])][3]
                            ELSE "UNKNOWN"
\* a merge has returned where the two last diarization segments tie for the
\* largest overlap with a transcript segment, carry different labels, and a
\* segment with a smaller positive overlap stands before them in the list
C30_TieForLargestOverlap ==
    /\ merge.pc = "returned"
    /\ Len(merge.diarization_segments) = 3
    /\ \E i \in 1..Len(merge.whisper_segments) :
          LET seg == merge.whisper_segments[i]
              ds == merge.diarization_segments
          IN /\ overlap_duration(seg, ds[1]) > 0
             /\ overlap_duration(seg, ds[1]) < overlap_duration(seg, ds[2])
             /\ overlap_duration(seg, ds[2]) = overlap_duration(seg, ds[3])
             /\ ds[2][3] # ds[3][3]
             /\ merge.result_segments[i].speaker = ds[2][3]

\* C31: the speaker merge is total: whatever the transcript segments and the
\* diarization segments (an empty list included), it returns one segment for
\* each transcript segment, in the same order, and each returned segment
\* carries a speaker label, which is UNKNOWN when the segment overlaps no
\* diarization segment.
C31_EverySegmentLabelled ==
    merge.pc = "returned" =>
        LET ws == merge.whisper_segments
            ds == merge.diarization_segments
            rs == merge.result_segments
        IN /\ Len(rs) = Len(ws)
           /\ \A i \in 1..Len(ws) :
                 /\ rs[i].start = ws[i].start
                 /\ rs[i].end = ws[i].end
                 /\ rs[i].text = ws[i].text
                 /\ "speaker" \in DOMAIN rs[i]
                 /\ (\A k \in 1..Len(ds) : overlap_duration(ws[i], ds[k]) = 0)
                       => rs[i].speaker = "UNKNOWN"

\* C32: in every reachable state, every job whose pipeline is executing in a
\* pool thread is in running_jobs, also when the job was dispatched more than
\* once.
C32_ExecutingIsInFlight ==
    \A j \in Jobs : (\E w \in Workers : Executing(w, j)) => InRunningJobs(j)

\* C33: the queue thread takes no entry from job_queue while max_workers
\* pipelines are executing, and running_jobs never holds more than
\* max_workers jobs.
C33_NoGetWhilePoolFull ==
    [][/\ \A d \in Dispatchers :
             GetStep(d) => Cardinality(ExecutingWorkers) < MaxWorkers
       /\ Len(running_jobs') <= MaxWorkers]_vars

\* C34: a list_jobs call on a job whose status, as the call read it from
\* metadata.json, equals the status determined from the job's files does not
\* save the job's metadata: metadata.json, its updated_at included, stays as
\* it is.
C34_ListJobsSameStatusNoWrite ==
    [][\A c \in Clients :
          (/\ th[c].pc = "list_status"
           /\ th'[c].pc = "idle"
           /\ determine_current_status(th[c].job) = th[c].snap.status)
          => (~th'[c].saved /\ UNCHANGED storeVars)]_vars

\* C35: no thread waits for _lock while it holds _lock itself: the thread
\* that holds the lock (a cancel_job or stop call inside its with block) is
\* never at the `with self._lock` of the completion callback, so the call
\* returns and the threads that wait for the lock are not blocked forever.
C35_NoSelfDeadlock ==
    lock # Free => ~At(lock, "job_completed")

\* C36: once a run is over and has left stage complete and no error file,
\* every list_jobs call made afterwards reports completed and leaves the
\* stored status completed, whatever the job's options and whatever the
\* optional stages did (a run that left no summary file included).
C36_CompleteStaysCompleted ==
    [][\A c \in Clients :
          (/\ th[c].pc = "list_status"
           /\ th'[c].pc = "idle"
           /\ RunOver(th[c].job)
           /\ files[th[c].job]["error"] = Absent
           /\ meta[th[c].job].stage = COMPLETE
           /\ th[c].snap.stage = COMPLETE)
          => /\ th'[c].ret = COMPLETED
             /\ meta'[th[c].job].status = COMPLETED]_vars

\* C37: a list_jobs call that runs while a worker executes the job loses no
\* update of the worker: the step in which list_jobs saves the metadata it
\* read leaves the stored stage as the last writer left it.
C37_ListJobsKeepsStage ==
    [][\A c \in Clients :
          (th[c].pc = "list_status" /\ th'[c].pc = "idle" /\ job_exists(th[c].job))
          => meta'[th[c].job].stage = meta[th[c].job].stage]_vars

\* C38: no accepted job is lost: once neither the pool, nor the queue thread,
\* nor a call in progress has a step left to take, no entry waits in
\* job_queue, and a job whose enqueue_job call returned True has been handed
\* to the pool or has an error file.
C38_AcceptedJobsDispatched ==
    \/ ENABLED (PoolStep \/ CallStep \/ \E d \in Dispatchers : QueueWorkerEmpty(d))
    \/ \A j \in Jobs :
          /\ ~InIntakeQueue(j)
          /\ (\E c \in Clients : Returned(c, "enqueue_job", j, "True"))
                => (j \in submitted \/ files[j]["error"] # Absent)
====
